---- MODULE Spec2Model ----
(***************************************************************************)
(* A model of the arithmetic expression evaluator: the character           *)
(* tokenizer (tokenizer.rs), the precedence-climbing parser (parser.rs)    *)
(* and the tree-walking evaluator (ast.rs).                                *)
(*                                                                         *)
(* The methods of Tokenizer and Parser take &mut self; they are written    *)
(* here as operators that take the state of the object and return the new  *)
(* state next to the result.  The actions apply one public operation each. *)
(***************************************************************************)
EXTENDS Integers, Sequences, FiniteSets, TLC

(***************************************************************************)
(* Bounds of the model.                                                    *)
(***************************************************************************)
\* Longest input text of the full pipeline (Spec), over the whole alphabet.
MaxLen == 3
\* Calls of Tokenizer::next made by an owner that drives the tokenizer itself.
MaxCalls == 5
\* f64 is scaled down to a binary fixed-point format: FracBits fractional
\* bits, magnitudes up to 2^RangeBits, beyond which a value is infinite.
FracBits == 4
RangeBits == 16
\* i64 is scaled down to IntBits bits (two's complement).
IntBits == 8
\* Longest text given to a tokenizer driven on its own (SpecTok).
MaxTokLen == 5
\* Longest text of the malformed-input runs (SpecErr).
MaxErrLen == 5
\* Longest text of the operator runs (SpecOps).
MaxOpsLen == 5
\* Longest text of the parenthesis runs (SpecAdj).
MaxAdjLen == 6
\* Most nodes of a tree handed to eval directly (SpecEval).
MaxNodes == 5
\* Longest text of the numeric runs (SpecNum).
MaxNumLen == 5
\* Longest text of the nested-parenthesis runs (SpecDeep).
MaxDeepLen == 8

\* The value of a call is named by x \in {call}: Only picks the one element
\* of the set built from it.
Only(S) == CHOOSE x \in S : TRUE

(***************************************************************************)
(* f64, scaled: a value is finite (u units of 2^-FracBits), infinite       *)
(* (u = 1 or -1) or NaN.  Negative zero is not distinguished from zero.    *)
(***************************************************************************)
Prec == 2 ^ FracBits
F64_MAX == 2 ^ RangeBits
MaxUnits == F64_MAX * Prec
\* f64::EPSILON, in units: the scaled format keeps one nonzero magnitude
\* (1 unit) below it, as f64 keeps many.
EPSILON == 2

NaN == [c |-> "nan", u |-> 0]
PosInf == [c |-> "inf", u |-> 1]
NegInf == [c |-> "inf", u |-> -1]
Fin(u) ==
    IF u > MaxUnits THEN PosInf
    ELSE IF u < -MaxUnits THEN NegInf
    ELSE [c |-> "fin", u |-> u]
FInt(i) == Fin(i * Prec)

Abs(i) == IF i < 0 THEN -i ELSE i
Sgn(i) == IF i < 0 THEN -1 ELSE IF i > 0 THEN 1 ELSE 0
\* a / b for b > 0, rounded to nearest, ties to even
RoundDiv(a, b) ==
    LET q == Abs(a) \div b
        r == Abs(a) % b
        up == (2 * r > b) \/ (2 * r = b /\ q % 2 = 1)
    IN Sgn(a) * (IF up THEN q + 1 ELSE q)

is_nan(x) == x.c = "nan"
is_infinite(x) == x.c = "inf"
is_finite(x) == x.c = "fin"
\* x < y, x <= y and x == y on f64: false when either is NaN
Key(x) == IF x.c = "inf" THEN x.u * (MaxUnits + 1) ELSE x.u
FLt(x, y) == ~is_nan(x) /\ ~is_nan(y) /\ Key(x) < Key(y)
FLe(x, y) == ~is_nan(x) /\ ~is_nan(y) /\ Key(x) <= Key(y)
FEq(x, y) == ~is_nan(x) /\ ~is_nan(y) /\ Key(x) = Key(y)

FNeg(x) == [x EXCEPT !.u = -x.u]
FAbs(x) == [x EXCEPT !.u = Abs(x.u)]
FAdd(x, y) ==
    CASE is_nan(x) \/ is_nan(y) -> NaN
      [] is_infinite(x) /\ is_infinite(y) -> IF x.u = y.u THEN x ELSE NaN
      [] is_infinite(x) -> x
      [] is_infinite(y) -> y
      [] OTHER -> Fin(x.u + y.u)
FSub(x, y) == FAdd(x, FNeg(y))
FMul(x, y) ==
    CASE is_nan(x) \/ is_nan(y) -> NaN
      [] is_infinite(x) \/ is_infinite(y) ->
            IF x.u = 0 \/ y.u = 0 THEN NaN
            ELSE IF Sgn(x.u) = Sgn(y.u) THEN PosInf ELSE NegInf
      [] x.u = 0 \/ y.u = 0 -> Fin(0)
      [] Abs(y.u) > (MaxUnits * Prec + Prec) \div Abs(x.u) ->
            IF Sgn(x.u) = Sgn(y.u) THEN PosInf ELSE NegInf
      [] OTHER -> Fin(RoundDiv(x.u * y.u, Prec))
FDiv(x, y) ==
    CASE is_nan(x) \/ is_nan(y) -> NaN
      [] is_infinite(x) ->
            IF is_infinite(y) THEN NaN
            ELSE IF Sgn(x.u) * (IF y.u < 0 THEN -1 ELSE 1) > 0 THEN PosInf ELSE NegInf
      [] is_infinite(y) -> Fin(0)
      [] y.u = 0 ->
            IF x.u = 0 THEN NaN ELSE IF x.u > 0 THEN PosInf ELSE NegInf
      [] OTHER -> Fin(Sgn(y.u) * RoundDiv(x.u * Prec, Abs(y.u)))
\* f64::fract: the part after the decimal point, with the sign of x
FFract(x) ==
    IF ~is_finite(x) THEN NaN
    ELSE Fin(Sgn(x.u) * (Abs(x.u) % Prec))
\* f64::trunc of a finite value, as an integer
Trunc(x) == Sgn(x.u) * (Abs(x.u) \div Prec)
IsWhole(x) == is_finite(x) /\ Abs(x.u) % Prec = 0
\* the largest r with r * r <= n, searched between lo and hi
RECURSIVE ISqrt(_, _, _)
ISqrt(n, lo, hi) ==
    IF lo >= hi THEN lo
    ELSE Only({IF mid * mid <= n THEN ISqrt(n, mid, hi) ELSE ISqrt(n, lo, mid - 1) :
               mid \in {(lo + hi + 1) \div 2}})
\* the square root of a finite x > 0, rounded to nearest
FSqrt(x) ==
    Only({Fin(IF x.u * Prec - r * r > r THEN r + 1 ELSE r) :
          r \in {ISqrt(x.u * Prec, 0, 2 ^ ((RangeBits + 2 * FracBits) \div 2 + 1))}})
\* x^n for a finite x > 0 and an integer n >= 0, by squaring
RECURSIVE IntPow(_, _)
IntPow(x, n) ==
    IF n = 0 THEN FInt(1)
    ELSE Only({IF n % 2 = 1 THEN Only({FMul(sq, x) : sq \in {FMul(h, h)}})
               ELSE FMul(h, h) :
               h \in {IntPow(x, n \div 2)}})
\* x^(f / Prec) for a finite x > 0 and 0 <= f < Prec: one square root for
\* each fractional bit of the exponent, w the weight of the next bit
RECURSIVE FracPow(_, _, _)
FracPow(r, f, w) ==
    IF w = 0 THEN FInt(1)
    ELSE Only({IF f >= w
               THEN Only({FMul(s, t) : t \in {FracPow(s, f - w, w \div 2)}})
               ELSE FracPow(s, f, w \div 2) :
               s \in {FSqrt(r)}})
\* x^y for a finite x > 0 and a finite y
PowPos(x, y) ==
    Only({FMul(IF y.u >= 0 THEN ip ELSE FDiv(FInt(1), ip), fp) :
          ip \in {IntPow(x, Abs(y.u \div Prec))},
          fp \in {FracPow(x, y.u % Prec, Prec \div 2)}})
IsOddWhole(y) == IsWhole(y) /\ (Abs(y.u) \div Prec) % 2 = 1
\* f64::powf (IEEE 754 pow)
powf(x, y) ==
    CASE is_finite(y) /\ y.u = 0 -> FInt(1)
      [] is_finite(x) /\ x.u = Prec -> FInt(1)
      [] is_nan(x) \/ is_nan(y) -> NaN
      [] is_infinite(y) ->
            IF is_finite(x) /\ Abs(x.u) = Prec THEN FInt(1)
            ELSE IF (is_infinite(x) \/ Abs(x.u) > Prec) = (y.u > 0) THEN PosInf
            ELSE Fin(0)
      [] is_infinite(x) ->
            IF y.u < 0 THEN Fin(0)
            ELSE IF x.u < 0 /\ IsOddWhole(y) THEN NegInf ELSE PosInf
      [] x.u = 0 -> IF y.u < 0 THEN PosInf ELSE Fin(0)
      [] x.u < 0 ->
            IF ~IsWhole(y) THEN NaN
            ELSE IF IsOddWhole(y) THEN FNeg(PowPos(FNeg(x), y))
            ELSE PowPos(FNeg(x), y)
      [] OTHER -> PowPos(x, y)

(***************************************************************************)
(* i64, scaled to IntBits bits, and the casts between i64 and f64.         *)
(***************************************************************************)
I64_MIN == -(2 ^ (IntBits - 1))
I64_MAX == 2 ^ (IntBits - 1) - 1
\* i64::MIN as f64 is exact.  i64::MAX as f64 is not: 2^63 - 1 has more
\* significant bits than an f64 holds, and the cast rounds to nearest, 2^63.
I64_MIN_as_f64 == FInt(I64_MIN)
I64_MAX_as_f64 == FInt(I64_MAX + 1)
\* f64 as i64: truncates, saturates at the ends of the range, NaN gives 0
as_i64(x) ==
    CASE is_nan(x) -> 0
      [] is_infinite(x) -> IF x.u > 0 THEN I64_MAX ELSE I64_MIN
      [] Trunc(x) > I64_MAX -> I64_MAX
      [] Trunc(x) < I64_MIN -> I64_MIN
      [] OTHER -> Trunc(x)
\* i64 as f64
as_f64(i) == FInt(i)
\* the IntBits-bit two's complement pattern of i, and back
ToBits(i) == i % (2 ^ IntBits)
FromBits(b) == IF b >= 2 ^ (IntBits - 1) THEN b - 2 ^ IntBits ELSE b
\* bitwise AND (and = TRUE) or OR of the patterns a and b, k bits of them
RECURSIVE BitOp(_, _, _, _)
BitOp(and, a, b, k) ==
    IF k = 0 THEN 0
    ELSE LET x == a % 2
             y == b % 2
             bit == IF and THEN x * y ELSE (IF x + y > 0 THEN 1 ELSE 0)
         IN bit + 2 * BitOp(and, a \div 2, b \div 2, k - 1)
BitAnd(i, j) == FromBits(BitOp(TRUE, ToBits(i), ToBits(j), IntBits))
BitOr(i, j) == FromBits(BitOp(FALSE, ToBits(i), ToBits(j), IntBits))
(***************************************************************************)
(* Characters and tokens.                                                  *)
(***************************************************************************)
Digits == {"0", "1", "2", "3", "4", "5", "6", "7", "8", "9"}
DigitVal(c) ==
    CASE c = "0" -> 0 [] c = "1" -> 1 [] c = "2" -> 2 [] c = "3" -> 3
      [] c = "4" -> 4 [] c = "5" -> 5 [] c = "6" -> 6 [] c = "7" -> 7
      [] c = "8" -> 8 [] c = "9" -> 9
is_ascii_whitespace(c) == c \in {" ", "\t", "\n", "\f", "\r"}

\* Token: Num carries its value, the other kinds carry none.
Tok(t) == [t |-> t, v |-> Fin(0)]
NumTok(v) == [t |-> "Num", v |-> v]
EOF == Tok("EOF")
\* Option<Token>::None
None == Tok("None")

\* OperPrec, lowest first, and Token::get_oper_prec.
DefaultZero == 0
AndOr == 1
AddSub == 2
MulDiv == 3
Power == 4
Negative == 5
get_oper_prec(tok) ==
    CASE tok.t \in {"And", "Or"} -> AndOr
      [] tok.t \in {"Add", "Subtract"} -> AddSub
      [] tok.t \in {"Multiply", "Divide"} -> MulDiv
      [] tok.t = "Caret" -> Power
      [] OTHER -> DefaultZero

(***************************************************************************)
(* Tokenizer.  Its state is the text and pos, the index of the next        *)
(* character of the Peekable<Chars>.                                       *)
(***************************************************************************)
\* the loop that drops leading whitespace
RECURSIVE SkipWhitespace(_, _)
SkipWhitespace(e, p) ==
    IF p <= Len(e) /\ is_ascii_whitespace(e[p]) THEN SkipWhitespace(e, p + 1)
    ELSE p

\* a literal loop that stops at whitespace
StopsAtWhitespace(c) == FALSE
\* the arm of the literal loop that consumes a whitespace character and
\* goes on with the literal
SkipsInLiteral(c) == is_ascii_whitespace(c)
\* the loop that collects a numeric literal into buffer; a second decimal
\* point is peeked, not consumed, and ends the call with None
RECURSIVE ScanNumber(_, _, _, _)
ScanNumber(e, p, buffer, has_decimal) ==
    IF p > Len(e) THEN [ok |-> TRUE, buffer |-> buffer, pos |-> p]
    ELSE LET c == e[p]
         IN CASE c \in Digits -> ScanNumber(e, p + 1, Append(buffer, c), has_decimal)
              [] c = "." ->
                    IF has_decimal THEN [ok |-> FALSE, buffer |-> buffer, pos |-> p]
                    ELSE ScanNumber(e, p + 1, Append(buffer, c), TRUE)
              [] SkipsInLiteral(c) -> ScanNumber(e, p + 1, buffer, has_decimal)
              [] OTHER -> [ok |-> TRUE, buffer |-> buffer, pos |-> p]

\* One character of a literal read into acc: int is the integer part read so
\* far (it stops growing once it is out of range), num / den the fraction.
\* Fraction digits below a millionth are below the resolution and dropped.
ReadChar(acc, c) ==
    CASE c = "." -> [acc EXCEPT !.point = TRUE]
      [] ~acc.point ->
            IF acc.int > F64_MAX THEN acc
            ELSE [acc EXCEPT !.int = 10 * @ + DigitVal(c)]
      [] OTHER ->
            IF acc.den >= 1000000 THEN acc
            ELSE [acc EXCEPT !.num = 10 * @ + DigitVal(c), !.den = 10 * @]
RECURSIVE ReadDecimal(_, _, _)
ReadDecimal(buffer, i, acc) ==
    IF i > Len(buffer) THEN acc
    ELSE Only({ReadDecimal(buffer, i + 1, a) : a \in {ReadChar(acc, buffer[i])}})
\* str::parse::<f64> of a buffer the tokenizer collected (a digit, then
\* digits and at most one decimal point: always a valid literal): the
\* nearest value of the format, infinite when out of range
parse_f64(buffer) ==
    Only({IF d.int > F64_MAX THEN PosInf
          ELSE Fin(d.int * Prec + RoundDiv(d.num * Prec, d.den)) :
          d \in {ReadDecimal(buffer, 1, [int |-> 0, num |-> 0, den |-> 1, point |-> FALSE])}})

Symbol(c) ==
    CASE c = "&" -> Tok("And")
      [] c = "|" -> Tok("Or")
      [] c = "+" -> Tok("Add")
      [] c = "-" -> Tok("Subtract")
      [] c = "*" -> Tok("Multiply")
      [] c = "/" -> Tok("Divide")
      [] c = "^" -> Tok("Caret")
      [] c = "(" -> Tok("LeftParen")
      [] c = ")" -> Tok("RightParen")
      [] OTHER -> None

\* Tokenizer::next: the token (or None) and the position after the call.
\* At the end of the text Chars::next gives None without moving.
\* next_char is None: the text is read up. Chars::next gives None again at
\* every later call, the position stays
AtEnd(e, q) == [tok |-> EOF, pos |-> q]
NumberArm(s) ==
    [tok |-> IF s.ok THEN NumTok(parse_f64(s.buffer)) ELSE None, pos |-> s.pos]
Tokenizer_next(e, p) ==
    Only({IF q > Len(e) THEN AtEnd(e, q)
          ELSE IF e[q] \in Digits
          THEN Only({NumberArm(s) : s \in {ScanNumber(e, q + 1, <<e[q]>>, FALSE)}})
          ELSE [tok |-> Symbol(e[q]), pos |-> q + 1] :
          q \in {SkipWhitespace(e, p)}})
(***************************************************************************)
(* AST nodes.                                                              *)
(***************************************************************************)
Number(v) == [op |-> "Number", v |-> v]
Neg(e) == [op |-> "Negative", e |-> e]
Bin(op, l, r) == [op |-> op, l |-> l, r |-> r]
BinaryOps == {"And", "Or", "Add", "Subtract", "Multiply", "Divide", "Caret"}
NoNode == [op |-> "none"]

(***************************************************************************)
(* Parser.  Its state p is the tokenizer (expr, pos), current_token (cur),  *)
(* and counts kept for the properties: pulls, the calls of                 *)
(* Tokenizer::next made so far, nones, those that returned None, discards, *)
(* the failed attempts after a closing parenthesis whose error was         *)
(* dropped, and moved, those of them that left the tokenizer or            *)
(* current_token changed.                                                  *)
(* Every method returns its Result (ok, node or err) and the state it      *)
(* leaves.                                                                 *)
(***************************************************************************)
OkR(node, p) == [ok |-> TRUE, node |-> node, err |-> "", p |-> p]
ErrR(err, p) == [ok |-> FALSE, node |-> NoNode, err |-> err, p |-> p]

get_next_token(p) ==
    Only({IF r.tok = None
          THEN ErrR("InvalidOperator: Invalid character",
                    [p EXCEPT !.pos = r.pos, !.pulls = @ + 1, !.nones = @ + 1])
          ELSE OkR(NoNode, [p EXCEPT !.pos = r.pos, !.pulls = @ + 1, !.cur = r.tok]) :
          r \in {Tokenizer_next(p.expr, p.pos)}})

check_paren(p, expected) ==
    IF expected = p.cur THEN get_next_token(p)
    ELSE ErrR("InvalidOperator: Expected", p)

\* the loop of generate_ast going on at equal precedence too
LoopContinuesAtEqual(oper_prec, tok) ==
    oper_prec <= get_oper_prec(tok) /\ tok # EOF
\* the condition of the loop of generate_ast, with its break on EOF
LoopContinues(oper_prec, tok) ==
    oper_prec < get_oper_prec(tok) /\ tok # EOF
\* convert_token_to_node with the arms of + - and * / taking each other's
\* precedence
RightPrecSwapped(tok) ==
    CASE tok.t \in {"Add", "Subtract"} -> MulDiv
      [] tok.t \in {"Multiply", "Divide"} -> AddSub
      [] tok.t = "Caret" -> Power
      [] tok.t \in {"And", "Or"} -> AndOr
\* the precedence convert_token_to_node parses the right operand at
RightPrec(tok) ==
    CASE tok.t \in {"Add", "Subtract"} -> AddSub
      [] tok.t \in {"Multiply", "Divide"} -> MulDiv
      [] tok.t = "Caret" -> Power
      [] tok.t \in {"And", "Or"} -> AndOr
\* a unary minus parsed at the precedence of * and /
UnaryPrecMulDiv == MulDiv
\* the precedence parse_number parses the operand of a unary minus at
UnaryPrec == Negative

RECURSIVE generate_ast(_, _)
RECURSIVE generate_ast_loop(_, _, _)
RECURSIVE parse_number(_)
RECURSIVE convert_token_to_node(_, _)

generate_ast(p, oper_prec) ==
    Only({IF ~l.ok THEN l ELSE generate_ast_loop(l.p, l.node, oper_prec) :
          l \in {parse_number(p)}})

generate_ast_loop(p, left_expr, oper_prec) ==
    IF LoopContinues(oper_prec, p.cur)
    THEN Only({IF ~r.ok THEN r ELSE generate_ast_loop(r.p, r.node, oper_prec) :
               r \in {convert_token_to_node(p, left_expr)}})
    ELSE OkR(left_expr, p)

\* a parse_number that returns the parenthesized expression as it is, with
\* no attempt at a following primary
AfterParenAlone(expr, p) == OkR(expr, p)
\* what parse_number does after the closing parenthesis: an attempt at a
\* following primary, whose failure is dropped (the state it left is kept)
AfterParen(expr, p) ==
    IF p.cur = Tok("Subtract") THEN OkR(expr, p)
    ELSE Only({IF m.ok THEN OkR(Bin("Multiply", expr, m.node), m.p)
               ELSE OkR(expr, [m.p EXCEPT !.discards = @ + 1,
                                          !.moved = @ + (IF m.p.pos = p.pos /\ m.p.cur = p.cur
                                                         THEN 0 ELSE 1)]) :
               m \in {parse_number(p)}})

\* the three arms of parse_number, each after its get_next_token returned g
NegativeArm(g) ==
    IF ~g.ok THEN g
    ELSE Only({IF ~r.ok THEN r ELSE OkR(Neg(r.node), r.p) :
               r \in {generate_ast(g.p, UnaryPrec)}})
NumArm(i, g) ==
    IF ~g.ok THEN g
    ELSE IF g.p.cur = Tok("LeftParen")
    THEN Only({IF ~r.ok THEN r ELSE OkR(Bin("Multiply", Number(i), r.node), r.p) :
               r \in {parse_number(g.p)}})
    ELSE OkR(Number(i), g.p)
ParenArm(g) ==
    IF ~g.ok THEN g
    ELSE Only({IF ~r.ok THEN r
               ELSE Only({IF ~c.ok THEN c ELSE AfterParen(r.node, c.p) :
                          c \in {check_paren(r.p, Tok("RightParen"))}}) :
               r \in {generate_ast(g.p, DefaultZero)}})

parse_number(p) ==
    CASE p.cur.t = "Subtract" -> Only({NegativeArm(g) : g \in {get_next_token(p)}})
      [] p.cur.t = "Num" -> Only({NumArm(p.cur.v, g) : g \in {get_next_token(p)}})
      [] p.cur.t = "LeftParen" -> Only({ParenArm(g) : g \in {get_next_token(p)}})
      [] OTHER -> ErrR("UnableToParse: Unable to parse", p)

\* an arm of convert_token_to_node, after its get_next_token returned g
OperatorArm(tok, left_expr, g) ==
    IF ~g.ok THEN g
    ELSE Only({IF ~r.ok THEN r ELSE OkR(Bin(tok.t, left_expr, r.node), r.p) :
               r \in {generate_ast(g.p, RightPrec(tok))}})

convert_token_to_node(p, left_expr) ==
    IF p.cur.t \in BinaryOps
    THEN Only({OperatorArm(p.cur, left_expr, g) : g \in {get_next_token(p)}})
    ELSE ErrR("InvalidOperator: Please enter valid operator", p)

\* Parser::new: the first token is pulled at construction
Parser_new(e) ==
    Only({IF r.tok = None
          THEN ErrR("InvalidOperator: Invalid character",
                    [expr |-> e, pos |-> r.pos, cur |-> None, pulls |-> 1, nones |-> 1,
                     discards |-> 0, moved |-> 0])
          ELSE OkR(NoNode, [expr |-> e, pos |-> r.pos, cur |-> r.tok, pulls |-> 1,
                            nones |-> 0, discards |-> 0, moved |-> 0]) :
          r \in {Tokenizer_next(e, 1)}})

parse(p) == generate_ast(p, DefaultZero)

(***************************************************************************)
(* Evaluator: eval returns Ok(v) or Err.                                   *)
(***************************************************************************)
OkV(v) == [ok |-> TRUE, v |-> v, err |-> ""]
ErrV(err) == [ok |-> FALSE, v |-> NaN, err |-> err]

\* the test that guards the i64 casts of And and Or
BitwiseOperandsOk(left_exp, right_exp) ==
    /\ FEq(FFract(left_exp), Fin(0)) /\ FEq(FFract(right_exp), Fin(0))
    /\ FLe(I64_MIN_as_f64, left_exp)
    /\ FLe(I64_MIN_as_f64, right_exp)
    /\ FLe(left_exp, I64_MAX_as_f64)
    /\ FLe(right_exp, I64_MAX_as_f64)
\* a test of the denominator against zero itself
IsExactlyZero(denom) == FEq(denom, Fin(0))
\* the test of Divide on its evaluated denominator
IsZeroDenom(denom) == FLt(FAbs(denom), Fin(EPSILON))

\* the arms of eval, on the evaluated operands
ArithArm(op, a, b) ==
    OkV(CASE op = "Add" -> FAdd(a, b)
          [] op = "Subtract" -> FSub(a, b)
          [] op = "Multiply" -> FMul(a, b))
CaretArm(base_exp, pow_exp) ==
    IF FEq(base_exp, Fin(0)) /\ FLt(pow_exp, Fin(0))
    THEN ErrV("0^negative is undefined")
    ELSE IF FLt(base_exp, Fin(0)) /\ FLt(Fin(EPSILON), FAbs(FFract(pow_exp)))
    THEN ErrV("Negative base with fractional exponent")
    ELSE Only({IF is_infinite(res) THEN ErrV("Overflow in exponentiation") ELSE OkV(res) :
               res \in {powf(base_exp, pow_exp)}})
BitwiseArm(op, left_exp, right_exp) ==
    IF BitwiseOperandsOk(left_exp, right_exp)
    THEN OkV(as_f64(IF op = "And" THEN BitAnd(as_i64(left_exp), as_i64(right_exp))
                    ELSE BitOr(as_i64(left_exp), as_i64(right_exp))))
    ELSE ErrV(IF op = "And"
              THEN "Cannot perform bitwise AND with the following expressions"
              ELSE "Cannot perform bitwise OR with the following expressions")

RECURSIVE eval(_)
\* both operands in the order the code evaluates them: first, then second
\* unless first failed
EvalBoth(first, second, op) ==
    Only({IF ~a.ok THEN a
          ELSE Only({IF ~b.ok THEN b
                     ELSE CASE op = "Caret" -> CaretArm(a.v, b.v)
                            [] op \in {"And", "Or"} -> BitwiseArm(op, a.v, b.v)
                            [] OTHER -> ArithArm(op, a.v, b.v) :
                     b \in {eval(second)}}) :
          a \in {eval(first)}})
DivideArm(expr1, denom) ==
    IF ~denom.ok THEN denom
    ELSE IF IsZeroDenom(denom.v) THEN ErrV("Division by zero")
    ELSE Only({IF ~a.ok THEN a ELSE OkV(FDiv(a.v, denom.v)) : a \in {eval(expr1)}})
eval(expr) ==
    CASE expr.op = "Number" -> OkV(expr.v)
      [] expr.op = "Negative" ->
            Only({IF ~a.ok THEN a ELSE OkV(FNeg(a.v)) : a \in {eval(expr.e)}})
      [] expr.op = "Divide" ->
            Only({DivideArm(expr.l, denom) : denom \in {eval(expr.r)}})
      [] OTHER -> EvalBoth(expr.l, expr.r, expr.op)

(***************************************************************************)
(* The state machine.                                                      *)
(***************************************************************************)
VARIABLES
    expr,           \* the input text, a sequence of characters
    pos,            \* Tokenizer.expr: index of the next character
    current_token,  \* Parser.current_token
    pulls,          \* calls of Tokenizer::next made by the parser
    lex_failures,   \* those of them that returned None
    attempts,       \* dropped failures after a closing parenthesis: how many
                    \* (discarded), how many of them changed the state (moved)
    phase,          \* "start", "lexing", "ready", "new_failed", "parsed", "evaluated"
    result,         \* what Parser::new or Parser::parse returned
    tokens,         \* what the calls of Tokenizer::next returned, in order
    value           \* what eval returned

vars == <<expr, pos, current_token, pulls, lex_failures, attempts, phase, result,
          tokens, value>>

NoResult == [ok |-> FALSE, node |-> NoNode, err |-> "none"]
NoValue == ErrV("none")
NoAttempts == [discarded |-> 0, moved |-> 0]


Operators == {"&", "|", "+", "-", "*", "/", "^"}
AllChars == {"0", "1", "2", "5", ".", " ", "\t", "(", ")", "@"} \cup Operators
TokChars == {"1", "2", ".", " ", "\n", "+", "@"}
ErrChars == {"1", "(", ")", "+", "-", ".", "@"}
OpsChars == {"1"} \cup Operators
AdjChars == {"1", "(", ")", "+", "-"}
NumChars == {"0", "9", ".", "+", "-", "*", "/", "^"}
DeepChars == {"1", "(", ")", "@"}

Start(text) ==
    /\ expr = text
    /\ pos = 1
    /\ current_token = None
    /\ pulls = 0
    /\ lex_failures = 0
    /\ attempts = NoAttempts
    /\ phase = "start"
    /\ result = NoResult
    /\ tokens = <<>>
    /\ value = NoValue

\* Tokenizer::next, called by an owner of the tokenizer alone
TokenizerNext ==
    /\ phase \in {"start", "lexing"}
    /\ Len(tokens) < MaxCalls
    /\ LET r == Tokenizer_next(expr, pos)
       IN /\ tokens' = Append(tokens, r.tok)
          /\ pos' = r.pos
    /\ phase' = "lexing"
    /\ UNCHANGED <<expr, current_token, pulls, lex_failures, attempts, result, value>>

\* Parser::new(expr)
ParserNew ==
    /\ phase = "start"
    /\ LET r == Parser_new(expr)
       IN /\ phase' = IF r.ok THEN "ready" ELSE "new_failed"
          /\ result' = IF r.ok THEN NoResult ELSE [ok |-> FALSE, node |-> NoNode, err |-> r.err]
          /\ pos' = r.p.pos
          /\ current_token' = r.p.cur
          /\ pulls' = r.p.pulls
          /\ lex_failures' = r.p.nones
          /\ attempts' = [discarded |-> r.p.discards, moved |-> r.p.moved]
    /\ UNCHANGED <<expr, tokens, value>>

\* Parser::parse
ParserParse ==
    /\ phase = "ready"
    /\ LET r == parse([expr |-> expr, pos |-> pos, cur |-> current_token,
                       pulls |-> pulls, nones |-> lex_failures,
                       discards |-> attempts.discarded, moved |-> attempts.moved])
       IN /\ result' = [ok |-> r.ok, node |-> r.node, err |-> r.err]
          /\ pos' = r.p.pos
          /\ current_token' = r.p.cur
          /\ pulls' = r.p.pulls
          /\ lex_failures' = r.p.nones
          /\ attempts' = [discarded |-> r.p.discards, moved |-> r.p.moved]
    /\ phase' = "parsed"
    /\ UNCHANGED <<expr, tokens, value>>

\* eval(ast) on the tree a parse returned, or on a tree built by the caller
Eval ==
    /\ phase = "parsed"
    /\ result.ok
    /\ value' = eval(result.node)
    /\ phase' = "evaluated"
    /\ UNCHANGED <<expr, pos, current_token, pulls, lex_failures, attempts, result, tokens>>

Init == \E k \in 0..MaxLen : \E text \in [1..k -> AllChars] : Start(text)
Next == TokenizerNext \/ ParserNew \/ ParserParse \/ Eval
Spec == Init /\ [][Next]_vars

\* a tokenizer driven on its own
InitTok == \E k \in 0..MaxTokLen : \E text \in [1..k -> TokChars] : Start(text)
NextTok == TokenizerNext
SpecTok == InitTok /\ [][NextTok]_vars

\* parsing, on three families of texts
NextParser == ParserNew \/ ParserParse
InitErr == \E k \in 0..MaxErrLen : \E text \in [1..k -> ErrChars] : Start(text)
SpecErr == InitErr /\ [][NextParser]_vars
InitOps == \E k \in 0..MaxOpsLen : \E text \in [1..k -> OpsChars] : Start(text)
SpecOps == InitOps /\ [][NextParser]_vars
InitAdj == \E k \in 0..MaxAdjLen : \E text \in [1..k -> AdjChars] : Start(text)
SpecAdj == InitAdj /\ [][NextParser]_vars

InitDeep == \E k \in 0..MaxDeepLen : \E text \in [1..k -> DeepChars] : Start(text)
SpecDeep == InitDeep /\ [][NextParser]_vars

\* parsing and evaluation of texts of large and small numbers
InitNum == \E k \in 0..MaxNumLen : \E text \in [1..k -> NumChars] : Start(text)
NextNum == ParserNew \/ ParserParse \/ Eval
SpecNum == InitNum /\ [][NextNum]_vars

\* eval on trees built by the caller: every tree of at most MaxNodes nodes
\* over these leaves
EvalLeaves ==
    {Fin(0), Fin(1), Fin(Prec + Prec \div 2), FInt(3), FInt(-2), I64_MAX_as_f64}
RECURSIVE NodesOfSize(_)
NodesOfSize(n) ==
    IF n = 1 THEN {Number(v) : v \in EvalLeaves}
    ELSE {Neg(e) : e \in NodesOfSize(n - 1)}
         \cup UNION {{Bin(op, l, r) : op \in BinaryOps, l \in NodesOfSize(k),
                                      r \in NodesOfSize(n - 1 - k)} : k \in 1..(n - 2)}
\* eval is handed any tree of at most MaxNodes nodes, the root chosen first
Handed(node) == result = [ok |-> TRUE, node |-> node, err |-> ""]
InitEval ==
    /\ expr = <<>>
    /\ pos = 1
    /\ current_token = None
    /\ pulls = 0
    /\ lex_failures = 0
    /\ attempts = NoAttempts
    /\ phase = "parsed"
    /\ \/ \E v \in EvalLeaves : Handed(Number(v))
       \/ \E k \in 1..(MaxNodes - 1) : \E e \in NodesOfSize(k) : Handed(Neg(e))
       \/ \E k \in 1..(MaxNodes - 2) : \E j \in 1..(MaxNodes - 1 - k) :
             \E op \in BinaryOps, l \in NodesOfSize(k), r \in NodesOfSize(j) :
                Handed(Bin(op, l, r))
    /\ tokens = <<>>
    /\ value = NoValue
NextEval == Eval
SpecEval == InitEval /\ [][NextEval]_vars
(***************************************************************************)
(* Properties.                                                             *)
(***************************************************************************)
\* the nesting depth of parentheses after the first i characters of e, or
\* -1 once a closing parenthesis had no opening one
RECURSIVE ParenDepth(_, _)
ParenDepth(e, i) ==
    IF i = 0 THEN 0
    ELSE Only({CASE d < 0 -> -1
                 [] e[i] = "(" -> d + 1
                 [] e[i] = ")" -> d - 1
                 [] OTHER -> d :
               d \in {ParenDepth(e, i - 1)}})
Unbalanced(e) == ParenDepth(e, Len(e)) # 0

\* C1: a text with unbalanced parentheses never parses to Ok(AST): after
\* Parser::new and parse the result is an error.
C1_UnbalancedIsError ==
    (phase \in {"new_failed", "parsed"} /\ Unbalanced(expr)) => ~result.ok

\* C2: when a call of Tokenizer::next made by Parser::new or parse returned
\* None (a lexical failure), Parser::new or parse returns an error.
C2_LexicalFailureIsError ==
    (phase \in {"new_failed", "parsed"} /\ lex_failures > 0) => ~result.ok

\* C3: when parse returns Ok(AST) every token has been consumed:
\* current_token is EOF and the tokenizer has nothing but EOF left.
C3_OkConsumesAll ==
    (phase = "parsed" /\ result.ok) =>
        (current_token = EOF /\ Tokenizer_next(expr, pos).tok = EOF)

\* C4, as claimed: once Tokenizer::next has returned EOF, every later call
\* returns None.
C4_NoneAfterEOF ==
    \A i, j \in 1..Len(tokens) : (i < j /\ tokens[i] = EOF) => tokens[j] = None
\* the characters i..j of e are a numeric literal of digits
IsLiteral(e, i, j) == i <= j /\ \A k \in i..j : e[k] \in Digits
Literal(e, i, j) == Number(parse_f64(SubSeq(e, i, j)))
\* the precedence level the claims give a binary operator
LevelOf(c) ==
    CASE c \in {"&", "|"} -> 1
      [] c \in {"+", "-"} -> 2
      [] c \in {"*", "/"} -> 3
      [] c = "^" -> 4
\* the text is 'a op1 b op2 c' with op1 at i and op2 at j
IsChain(e, i, j) ==
    /\ i < j
    /\ e[i] \in Operators /\ e[j] \in Operators
    /\ IsLiteral(e, 1, i - 1) /\ IsLiteral(e, i + 1, j - 1) /\ IsLiteral(e, j + 1, Len(e))
LeftTree(e, i, j) ==
    Bin(Symbol(e[j]).t,
        Bin(Symbol(e[i]).t, Literal(e, 1, i - 1), Literal(e, i + 1, j - 1)),
        Literal(e, j + 1, Len(e)))
RightTree(e, i, j) ==
    Bin(Symbol(e[i]).t,
        Literal(e, 1, i - 1),
        Bin(Symbol(e[j]).t, Literal(e, i + 1, j - 1), Literal(e, j + 1, Len(e))))

\* C5: 'a op1 b op2 c' with op1, op2 of different precedence parses to
\* op1(a, op2(b, c)) when op2 binds tighter and to op2(op1(a, b), c) when op1
\* binds tighter, with & | below + - below * / below ^.
C5_PrecedenceBinds ==
    \A i, j \in 1..Len(expr) :
        (phase = "parsed" /\ IsChain(expr, i, j) /\ LevelOf(expr[i]) # LevelOf(expr[j])) =>
            /\ result.ok
            /\ result.node = IF LevelOf(expr[i]) < LevelOf(expr[j])
                             THEN RightTree(expr, i, j)
                             ELSE LeftTree(expr, i, j)
\* 'a + b * c' has been parsed to Add(a, Multiply(b, c)), and a text whose
\* first operator binds tighter has been parsed too
C5_Witness ==
    /\ phase = "parsed" /\ result.ok
    /\ \E i, j \in 1..Len(expr) :
          /\ IsChain(expr, i, j) /\ expr[i] = "+" /\ expr[j] = "*"
          /\ result.node.op = "Add" /\ result.node.r.op = "Multiply"

\* C6: 'a op1 b op2 c' with op1, op2 of the same precedence parses to
\* op2(op1(a, b), c): equal precedence is left-associative, ^ included.
C6_LeftAssociative ==
    \A i, j \in 1..Len(expr) :
        (phase = "parsed" /\ IsChain(expr, i, j) /\ LevelOf(expr[i]) = LevelOf(expr[j])) =>
            (result.ok /\ result.node = LeftTree(expr, i, j))
\* 'a ^ b ^ c' has been parsed to Caret(Caret(a, b), c)
C6_Witness ==
    /\ phase = "parsed" /\ result.ok
    /\ \E i, j \in 1..Len(expr) :
          /\ IsChain(expr, i, j) /\ expr[i] = "^" /\ expr[j] = "^"
          /\ result.node.op = "Caret" /\ result.node.l.op = "Caret"

\* C7: '-a op b' parses to op(Negative(a), b) for every binary operator op,
\* ^ included: unary negation binds tighter than every binary operator.
C7_NegationBindsTightest ==
    \A i \in 1..Len(expr) :
        (/\ phase = "parsed" /\ i > 2
         /\ expr[1] = "-" /\ expr[i] \in Operators
         /\ IsLiteral(expr, 2, i - 1) /\ IsLiteral(expr, i + 1, Len(expr))) =>
            /\ result.ok
            /\ result.node = Bin(Symbol(expr[i]).t, Neg(Literal(expr, 2, i - 1)),
                                 Literal(expr, i + 1, Len(expr)))
\* '-a ^ b' has been parsed to Caret(Negative(a), b)
C7_Witness ==
    /\ phase = "parsed" /\ result.ok
    /\ \E i \in 3..Len(expr) :
          /\ expr[1] = "-" /\ expr[i] = "^"
          /\ IsLiteral(expr, 2, i - 1) /\ IsLiteral(expr, i + 1, Len(expr))
          /\ result.node.op = "Caret" /\ result.node.l.op = "Negative"
\* The well-formed texts, by the grammar
\*    Expr ::= Term (binop Term)*      Term ::= '-' Term | Prim Prim*
\*    Prim ::= literal | '(' Expr ')'
\* each told of the characters i..j of e.
RECURSIVE IsExpr(_, _, _)
RECURSIVE IsTerm(_, _, _)
RECURSIVE IsJuxt(_, _, _)
IsPrim(e, i, j) ==
    \/ IsLiteral(e, i, j)
    \/ i + 1 < j /\ e[i] = "(" /\ e[j] = ")" /\ IsExpr(e, i + 1, j - 1)
IsJuxt(e, i, j) ==
    \/ IsPrim(e, i, j)
    \/ \E k \in i..(j - 1) :
          /\ ~(e[k] \in Digits /\ e[k + 1] \in Digits)
          /\ IsPrim(e, i, k) /\ IsJuxt(e, k + 1, j)
IsTerm(e, i, j) ==
    \/ i < j /\ e[i] = "-" /\ IsTerm(e, i + 1, j)
    \/ i <= j /\ IsJuxt(e, i, j)
IsExpr(e, i, j) ==
    \/ IsTerm(e, i, j)
    \/ \E k \in (i + 1)..(j - 1) :
          e[k] \in Operators /\ IsExpr(e, i, k - 1) /\ IsTerm(e, k + 1, j)
\* the AST the characters i..j of e parse to as a text of their own
AstOf(e, i, j) == parse(Parser_new(SubSeq(e, i, j)).p).node
\* the text is 'n(A)' with the literal n ending at k
IsNumParen(e, k) ==
    /\ k + 2 < Len(e)
    /\ IsLiteral(e, 1, k) /\ e[k + 1] = "(" /\ e[Len(e)] = ")"
    /\ IsExpr(e, k + 2, Len(e) - 1)
\* the text is '(A)P' with the parenthesis of A closing at k
IsParenPrim(e, k) ==
    /\ 2 < k /\ k < Len(e)
    /\ e[1] = "(" /\ e[k] = ")"
    /\ IsExpr(e, 2, k - 1) /\ IsPrim(e, k + 1, Len(e))

\* C8: a literal n followed at once by (A) parses to Multiply(Number(n), A)
\* and (A) followed at once by a primary P, a literal or a parenthesized
\* expression, parses to Multiply(A, P), for every well-formed A and P.
C8_AdjacencyMultiplies ==
    \A k \in 1..Len(expr) :
        /\ (phase = "parsed" /\ IsNumParen(expr, k)) =>
              /\ result.ok
              /\ result.node = Bin("Multiply", Literal(expr, 1, k),
                                   AstOf(expr, k + 2, Len(expr) - 1))
        /\ (phase = "parsed" /\ IsParenPrim(expr, k)) =>
              /\ result.ok
              /\ result.node = Bin("Multiply", AstOf(expr, 2, k - 1),
                                   AstOf(expr, k + 1, Len(expr)))
\* a text '(A)P' whose A is not a bare literal has been parsed to a Multiply
C8_Witness ==
    /\ phase = "parsed" /\ result.ok
    /\ \E k \in 1..Len(expr) :
          IsParenPrim(expr, k) /\ ~IsLiteral(expr, 2, k - 1)
    /\ result.node.op = "Multiply"
\* the node evaluates to a number of absolute value below epsilon
EvaluatesToZero(node) ==
    Only({v.ok /\ is_finite(v.v) /\ Abs(v.v.u) < EPSILON : v \in {eval(node)}})
\* the AST holds, at some depth, a Divide whose denominator evaluates to zero
RECURSIVE HasZeroDivide(_)
HasZeroDivide(node) ==
    CASE node.op = "Number" -> FALSE
      [] node.op = "Negative" -> HasZeroDivide(node.e)
      [] OTHER ->
            \/ node.op = "Divide" /\ EvaluatesToZero(node.r)
            \/ HasZeroDivide(node.l)
            \/ HasZeroDivide(node.r)

\* C9: eval returns an error, never a number, for every AST that holds at any
\* depth a Divide node whose denominator evaluates to zero, whatever encloses
\* the Divide and whatever its numerator is.
C9_ZeroDivideIsError ==
    (phase = "evaluated" /\ HasZeroDivide(result.node)) => ~value.ok
\* a Divide by zero below a node of another kind has been evaluated
C9_Witness ==
    /\ phase = "evaluated"
    /\ result.node.op \in BinaryOps \ {"Divide"}
    /\ HasZeroDivide(result.node.r)
    /\ ~HasZeroDivide(result.node.l)
    /\ eval(result.node.l).ok

\* the value is a whole number of the signed integer range
InI64Range(v) ==
    /\ is_finite(v) /\ v.u % Prec = 0
    /\ I64_MIN * Prec <= v.u /\ v.u <= I64_MAX * Prec
\* C10: eval of And(a, b) and of Or(a, b) succeeds exactly when both operands
\* evaluate to whole numbers of the signed integer range, and then returns
\* their bitwise AND, respectively OR, as two's-complement integers; otherwise
\* it returns an error.
C10_BitwiseExactlyOnIntegers ==
    (phase = "evaluated" /\ result.node.op \in {"And", "Or"}) =>
        Only({IF a.ok /\ b.ok /\ InI64Range(a.v) /\ InI64Range(b.v)
              THEN value = OkV(FInt(IF result.node.op = "And"
                                    THEN BitAnd(a.v.u \div Prec, b.v.u \div Prec)
                                    ELSE BitOr(a.v.u \div Prec, b.v.u \div Prec)))
              ELSE ~value.ok :
              a \in {eval(result.node.l)}, b \in {eval(result.node.r)}})
\* C11: for every AST the parser produces, eval returns an error or a finite
\* number, never Ok(NaN) nor Ok(+/-infinity).
C11_EvalIsFiniteOrError ==
    (phase = "evaluated" /\ value.ok) => is_finite(value.v)
\* the text without its ASCII whitespace
StripWhitespace(e) == SelectSeq(e, LAMBDA c : ~is_ascii_whitespace(c))
\* what the first n calls of Tokenizer::next return on the text e, the
\* tokenizer standing at p
RECURSIVE ResultsOf(_, _, _)
ResultsOf(e, p, n) ==
    IF n = 0 THEN <<>>
    ELSE Only({<<r.tok>> \o ResultsOf(e, r.pos, n - 1) : r \in {Tokenizer_next(e, p)}})

\* C12: the results of successive calls of Tokenizer::next on a text are
\* those of the calls on the text with all ASCII whitespace removed,
\* whitespace inside numeric literals included.
C12_WhitespaceInsensitive ==
    tokens = ResultsOf(StripWhitespace(expr), 1, Len(tokens))
\* a literal with whitespace inside it has been read as one Num token
C12_Witness ==
    /\ Len(tokens) >= 1
    /\ tokens[1].t = "Num"
    /\ \E i \in 1..(Len(expr) - 2) :
          /\ expr[i] \in Digits /\ is_ascii_whitespace(expr[i + 1]) /\ expr[i + 2] \in Digits
          /\ \A k \in 1..(i - 1) : expr[k] \in Digits
          /\ tokens[1] = NumTok(parse_f64(StripWhitespace(SubSeq(expr, 1, i + 2))))
\* the tokens of the text e from p on: the results of the calls of
\* Tokenizer::next before the one that returns EOF, those that are a token
\* (a call that returns None yields none)
RECURSIVE TokensIn(_, _)
TokensIn(e, p) ==
    Only({IF r.tok = EOF THEN 0
          ELSE (IF r.tok = None THEN 0 ELSE 1) + TokensIn(e, r.pos) :
          r \in {Tokenizer_next(e, p)}})

\* C13: Parser::new and parse end, with Ok or Err, after no more calls of
\* Tokenizer::next than the text has tokens, plus one for the end-of-input
\* marker.
C13_PullsBounded ==
    (phase \in {"ready", "new_failed", "parsed"}) => pulls <= TokensIn(expr, 1) + 1
\* C14: when the attempt at a following primary after a closing parenthesis
\* fails and its failure is dropped, the parser is as it was before the
\* attempt: the tokenizer has been read no further and current_token is
\* still the token that followed the closing parenthesis.
C14_DroppedAttemptLeavesState ==
    (phase = "parsed" /\ attempts.discarded > 0) => attempts.moved = 0
====
